---- MODULE Spec2Model ----
(***************************************************************************)
(* Model of the VIV example driver, examples/fsi/viv.py: train(solver),    *)
(* eval(solver, epoch_id) and the __main__ dispatch on solver.mode.        *)
(*                                                                         *)
(* The hyper-parameters that train() binds at its top (epochs, save_freq,  *)
(* eval_freq, start_eval_epoch, eval_during_train) are drawn from small    *)
(* ranges in Init; the source binds them to 100000, 1000, 1000, 1 and True.*)
(* The collaborators that are not part of the driver (the training         *)
(* strategy, the evaluation strategy, save_load.save_checkpoint and the    *)
(* learning-rate schedule) are modelled by their effect on the solver and  *)
(* by an entry in `calls`, the history of the calls the driver has made;   *)
(* each of the first three may also raise.                                 *)
(***************************************************************************)
EXTENDS Integers, Sequences, FiniteSets

\* ------------------------------------------------------------------ bounds
MaxEpochs == 5
MaxFreq == 3
MaxMetric == 1
\* tensors of the initializer model: rank 0..MaxRank, each dimension 1..MaxDim
MaxRank == 3
MaxDim == 2
MaxMean == 4
MaxStd == 1
MaxCut == 1
MaxVal == 2
MaxShape == 2
MaxLen == 2
MaxDelta == 1

\* float("inf"): greater than every scalar an evaluation returns here
Inf == MaxMetric + 1
\* the scalars the evaluation strategy may return
Metrics == 0..MaxMetric

VARIABLES
    mode,               \* solver.mode, the branch __main__ takes
    pc,                 \* the driver's position
    err,                \* the position whose call raised, "none" before
    epochs,
    save_freq,
    eval_during_train,
    eval_freq,
    start_eval_epoch,
    by_epoch,           \* solver.lr_scheduler.by_epoch
    training,           \* solver.model.training (Layer.train()/Layer.eval())
    was_training,       \* solver.model.training when eval() was last entered
    best_metric,        \* [metric, epoch]
    epoch_id,
    cur_metric,
    result,             \* eval()'s local `result`
    train_output_info,  \* the keys of solver.train_output_info
    lr_steps,           \* number of lr_scheduler.step() calls made
    calls,              \* history of the calls made to the collaborators
    \* ---- ppsci/utils/initializer.py: one call of one of its functions
    fn,                 \* the function called
    ipc,                \* the call's position
    shape,              \* tensor.shape (module.weight.shape for *_init_)
    reverse,
    fan_mode,           \* the argument `mode` of kaiming_*
    nonlinearity,
    slope,              \* the argument `a` of kaiming_*
    mean,
    std,
    cut_a,              \* the arguments `a` and `b` of trunc_normal_
    cut_b,
    exc,                \* the exception that left the call
    warned,             \* logger.warning was called
    fans,               \* (fan_in, fan_out) as computed
    fan,                \* the fan kaiming_* selected
    gain,               \* the gain as computed, squared, as a fraction
    sample,             \* one element of _tensor before the clamp
    elem,               \* the same element of the tensor
    weight,             \* what the tensor (the weight) was filled with
    bias,               \* what module.bias was filled with
    \* ---- tests/models/configtrans.py: one call of compare
    res,
    expect,
    delta,
    cmp_mode,           \* the argument `mode` of compare
    idx,                \* the position of the loop of line 156 in res
    cpc,                \* the call's position
    cexc                \* the exception that left the call

vars == <<mode, pc, err, epochs, save_freq, eval_during_train, eval_freq,
          start_eval_epoch, by_epoch, training, was_training, best_metric,
          epoch_id, cur_metric, result, train_output_info, lr_steps, calls,
          fn, ipc, shape, reverse, fan_mode, nonlinearity, slope, mean, std,
          cut_a, cut_b, exc, warned, fans, fan, gain, sample, elem, weight,
          bias, res, expect, delta, cmp_mode, idx, cpc, cexc>>

\* the state of the initializer call, which the driver never touches
ivars == <<fn, ipc, shape, reverse, fan_mode, nonlinearity, slope, mean, std,
           cut_a, cut_b, exc, warned, fans, fan, gain, sample, elem, weight,
           bias>>

\* the state of the call of compare, which neither of the others touches
cvars == <<res, expect, delta, cmp_mode, idx, cpc, cexc>>

\* the state of the driver, which the initializer never touches
dvars == <<mode, pc, err, epochs, save_freq, eval_during_train, eval_freq,
           start_eval_epoch, by_epoch, training, was_training, best_metric,
           epoch_id, cur_metric, result, train_output_info, lr_steps, calls>>

\* what the driver's loop never assigns
hyper == <<mode, epochs, save_freq, eval_during_train, eval_freq,
           start_eval_epoch, by_epoch, ivars, cvars>>

\* ----------------------------------------------------------- call history
NoTag == [name |-> "", n |-> 0]
NoRecord == [metric |-> Inf, epoch |-> 0]

\* f"epoch_{epoch_id}", "latest" and "best_model": the tag's text and the
\* number formatted into it (0 when the tag has none)
EpochTag(e) == [name |-> "epoch_", n |-> e]
LatestTag == [name |-> "latest", n |-> 0]
BestTag == [name |-> "best_model", n |-> 0]

\* one call made by the driver during epoch e
Call(op, e, tag, rec) == [op |-> op, epoch |-> e, tag |-> tag, rec |-> rec]

\* save_load.save_checkpoint(model, optimizer, metric, output_dir, name, tag)
SaveCheckpoint(e, rec, tag) == Call("save", e, tag, rec)

\* ------------------------------------------------------------------ train
\* a cadence counted from start_eval_epoch instead of from epoch 0
EvalDueFromStart(e) ==
    /\ eval_during_train
    /\ e >= start_eval_epoch
    /\ (e - start_eval_epoch) % eval_freq = 0

\* viv.py 138-142: the evaluation cadence
EvalDue(e) ==
    /\ eval_during_train
    /\ e % eval_freq = 0
    /\ e >= start_eval_epoch

\* a cadence that is off by one epoch
SaveDueOffByOne(e) == save_freq > 0 /\ (e - 1) % save_freq = 0

\* viv.py 165: the epoch checkpoint cadence
SaveDue(e) == save_freq > 0 /\ e % save_freq = 0

\* a comparison that lets a tie replace the record
ImprovesOrTies(m, best) == m <= best.metric

\* viv.py 144: lower is better, strictly
Improves(m, best) == m < best.metric

\* what the training strategy leaves in solver.train_output_info
TrainKeys == {"loss", "EQ"}

\* ------------------------------------------------- initializer: values
NoExc == [type |-> "none", about |-> ""]
ValueError(about) == [type |-> "ValueError", about |-> about]
ZeroDivisionError == [type |-> "ZeroDivisionError", about |-> "std"]

\* a fraction num/den
Frac(n, d) == [num |-> n, den |-> d]
NoFrac == Frac(0, 1)

\* paddle.empty(...): a tensor nothing has been written to
Empty == [dist |-> "empty", num |-> 0, den |-> 1]
\* module.bias is None
NoBias == [dist |-> "none", num |-> 0, den |-> 1]

\* the argument `a` of kaiming_*: its Python type and its value in hundredths
Slope(kind, v) == [kind |-> kind, v |-> v]
\* the caller leaves `a` out
SlopeOmitted == Slope("omitted", 0)

\* no initializer call is in progress while the driver runs
\* the values compare is given: a numpy array (its shape, its dtype and the
\* value of its elements), a list or tuple of items, an int/float/complex/
\* bool, and a value of any other type (None, a str, a dict). Numbers are
\* in halves, an int dtype holding whole numbers only.
Array(sh, dt, v) ==
    [kind |-> "array", shape |-> sh, dtype |-> dt, v |-> v, items |-> <<>>]
Scalar(v) ==
    [kind |-> "scalar", shape |-> 0, dtype |-> "", v |-> v, items |-> <<>>]
List(items) ==
    [kind |-> "list", shape |-> 0, dtype |-> "", v |-> 0, items |-> items]
Other == [kind |-> "other", shape |-> 0, dtype |-> "", v |-> 0, items |-> <<>>]

\* no call of compare
CompareIdle ==
    /\ res = Other /\ expect = Other
    /\ delta = 0 /\ cmp_mode = "close"
    /\ idx = 1
    /\ cpc = "none" /\ cexc = "none"

InitializerIdle ==
    /\ fn = "none" /\ ipc = "none"
    /\ shape = <<>> /\ reverse = FALSE
    /\ fan_mode = "fan_in" /\ nonlinearity = "leaky_relu"
    /\ slope = SlopeOmitted
    /\ mean = 0 /\ std = 1 /\ cut_a = 0 /\ cut_b = 0
    /\ exc = NoExc /\ warned = FALSE
    /\ fans = <<0, 0>> /\ fan = 0 /\ gain = NoFrac
    /\ sample = 0 /\ elem = 0
    /\ weight = Empty /\ bias = NoBias

\* ------------------------------------------------------------ the driver
\* __main__ calls train(solver) or eval(solver, 0); the solver's model is in
\* either mode when the driver is entered. train()'s hyper-parameters and
\* schedule do not exist in the eval branch and are held at fixed values.
Init ==
    /\ mode \in {"train", "eval"}
    /\ IF mode = "train"
         THEN /\ epochs \in 0..MaxEpochs
              /\ save_freq \in 0..MaxFreq
              /\ eval_during_train \in BOOLEAN
              /\ eval_freq \in 1..MaxFreq
              /\ start_eval_epoch \in 1..MaxFreq
              /\ by_epoch \in BOOLEAN
         ELSE /\ epochs = 0
              /\ save_freq = 0
              /\ eval_during_train = FALSE
              /\ eval_freq = 1
              /\ start_eval_epoch = 1
              /\ by_epoch = FALSE
    /\ training \in BOOLEAN
    /\ was_training = training
    /\ best_metric = [metric |-> Inf, epoch |-> 0]
    /\ epoch_id = 0
    /\ cur_metric = Inf
    /\ result = Inf
    /\ train_output_info = {}
    /\ lr_steps = 0
    /\ calls = <<>>
    /\ err = "none"
    /\ pc = IF mode = "train" THEN "for" ELSE "eval_enter"
    /\ InitializerIdle
    /\ CompareIdle

\* a loop that stops once the best metric is 0
ForEpochEarlyStop ==
    /\ pc = "for"
    /\ IF epoch_id < epochs /\ best_metric.metric > 0
         THEN /\ epoch_id' = epoch_id + 1
              /\ pc' = "train_epoch"
         ELSE /\ pc' = "close"
              /\ UNCHANGED epoch_id
    /\ UNCHANGED <<hyper, was_training,
                   err, training, best_metric, cur_metric, result,
                   train_output_info, lr_steps, calls>>

\* viv.py 126: for epoch_id in range(1, epochs + 1)
ForEpoch ==
    /\ pc = "for"
    /\ IF epoch_id < epochs
         THEN /\ epoch_id' = epoch_id + 1
              /\ pc' = "train_epoch"
         ELSE /\ pc' = "close"
              /\ UNCHANGED epoch_id
    /\ UNCHANGED <<hyper, was_training,
                   err, training, best_metric, cur_metric, result,
                   train_output_info, lr_steps, calls>>

\* an exception leaves train()/eval(): neither has a try statement
Raise(what) ==
    /\ pc' = "raised"
    /\ err' = what

\* viv.py 127: solver.train_epoch_func(solver, epoch_id, solver.log_freq)
TrainEpoch ==
    /\ pc = "train_epoch"
    /\ calls' = Append(calls, Call("train", epoch_id, NoTag, NoRecord))
    /\ train_output_info' = train_output_info \cup TrainKeys
    /\ pc' = "log_train"
    /\ UNCHANGED <<hyper, was_training,
                   err, training, best_metric, epoch_id, cur_metric,
                   result, lr_steps>>

TrainEpochRaises ==
    /\ pc = "train_epoch"
    /\ calls' = Append(calls, Call("train", epoch_id, NoTag, NoRecord))
    /\ Raise("train_epoch")
    /\ UNCHANGED <<hyper, was_training,
                   training, best_metric, epoch_id, cur_metric,
                   result, train_output_info, lr_steps>>

\* the aggregate logged but not cleared (line 134 left out)
LogTrainKeepsInfo ==
    /\ pc = "log_train"
    /\ cur_metric' = Inf
    /\ pc' = IF EvalDue(epoch_id) THEN "eval_enter" ELSE "lr_step"
    /\ UNCHANGED <<hyper, was_training,
                   err, training, best_metric, epoch_id, result,
                   train_output_info, lr_steps, calls>>

\* cur_metric bound once before the loop instead of in every epoch
LogTrainKeepsMetric ==
    /\ pc = "log_train"
    /\ train_output_info' = {}
    /\ pc' = IF EvalDue(epoch_id) THEN "eval_enter" ELSE "lr_step"
    /\ UNCHANGED <<hyper, was_training,
                   err, training, best_metric, epoch_id, cur_metric, result,
                   lr_steps, calls>>

\* viv.py 130-142: log the epoch's averages, clear the aggregate, reset
\* cur_metric and test the evaluation cadence
LogTrain ==
    /\ pc = "log_train"
    /\ train_output_info' = {}
    /\ cur_metric' = Inf
    /\ pc' = IF EvalDue(epoch_id) THEN "eval_enter" ELSE "lr_step"
    /\ UNCHANGED <<hyper, was_training,
                   err, training, best_metric, epoch_id, result,
                   lr_steps, calls>>

\* ------------------------------------------------------------------- eval
\* viv.py 192-206: eval() up to and including solver.model.eval()
EvalEnter ==
    /\ pc = "eval_enter"
    /\ calls' = Append(calls, Call("eval", epoch_id, NoTag, NoRecord))
    /\ was_training' = training
    /\ training' = FALSE
    /\ pc' = "eval_func"
    /\ UNCHANGED <<hyper, err, best_metric, epoch_id, cur_metric, result,
                   train_output_info, lr_steps>>

\* viv.py 209-245: result = solver.eval_func(solver, epoch_id, log_freq)
EvalFunc ==
    /\ pc = "eval_func"
    /\ \E r \in Metrics : result' = r
    /\ pc' = "eval_exit"
    /\ UNCHANGED <<hyper, was_training,
                   err, training, best_metric, epoch_id, cur_metric,
                   train_output_info, lr_steps, calls>>

\* viv.py 245: the evaluation strategy raises; line 254 is not reached
EvalFuncRaises ==
    /\ pc = "eval_func"
    /\ Raise("eval_func")
    /\ UNCHANGED <<hyper, was_training,
                   training, best_metric, epoch_id, cur_metric,
                   result, train_output_info, lr_steps, calls>>

\* viv.py 248-255: log, solver.model.train(), return result; in train()
\* the value is bound to cur_metric (line 143)
EvalExit ==
    /\ pc = "eval_exit"
    /\ training' = TRUE
    /\ calls' = Append(calls, Call("eval_ret", epoch_id, NoTag,
                                   [metric |-> result, epoch |-> epoch_id]))
    /\ IF mode = "train"
         THEN /\ cur_metric' = result
              /\ pc' = "compare"
         ELSE /\ pc' = "done"
              /\ UNCHANGED cur_metric
    /\ UNCHANGED <<hyper, was_training,
                   err, best_metric, epoch_id, result,
                   train_output_info, lr_steps>>

\* ------------------------------------------------- train, after evaluation
\* an update that forgets line 146
CompareBestKeepsEpoch ==
    /\ pc = "compare"
    /\ IF Improves(cur_metric, best_metric)
         THEN /\ best_metric' = [metric |-> cur_metric,
                                 epoch |-> best_metric.epoch]
              /\ pc' = "save_best"
         ELSE /\ pc' = "lr_step"
              /\ UNCHANGED best_metric
    /\ UNCHANGED <<hyper, was_training,
                   err, training, epoch_id, cur_metric, result,
                   train_output_info, lr_steps, calls>>

\* an update that moves the recorded epoch on a tie
CompareBestTieMovesEpoch ==
    /\ pc = "compare"
    /\ IF Improves(cur_metric, best_metric)
         THEN /\ best_metric' = [metric |-> cur_metric, epoch |-> epoch_id]
              /\ pc' = "save_best"
         ELSE /\ pc' = "lr_step"
              /\ best_metric' = IF cur_metric = best_metric.metric
                                  THEN [metric |-> cur_metric,
                                        epoch |-> epoch_id]
                                  ELSE best_metric
    /\ UNCHANGED <<hyper, was_training,
                   err, training, epoch_id, cur_metric, result,
                   train_output_info, lr_steps, calls>>

\* viv.py 144-146 (and the logging of 155-158 when there is no improvement)
CompareBest ==
    /\ pc = "compare"
    /\ IF Improves(cur_metric, best_metric)
         THEN /\ best_metric' = [metric |-> cur_metric, epoch |-> epoch_id]
              /\ pc' = "save_best"
         ELSE /\ pc' = "lr_step"
              /\ UNCHANGED best_metric
    /\ UNCHANGED <<hyper, was_training,
                   err, training, epoch_id, cur_metric, result,
                   train_output_info, lr_steps, calls>>

\* the "best_model" write moved behind the scheduler step
SaveBestAfterStep ==
    /\ pc = "save_best"
    /\ IF by_epoch
         THEN /\ lr_steps' = lr_steps + 1
              /\ calls' = calls \o
                   <<Call("step", epoch_id, NoTag, NoRecord),
                     SaveCheckpoint(epoch_id, best_metric, BestTag)>>
         ELSE /\ calls' = Append(calls,
                              SaveCheckpoint(epoch_id, best_metric, BestTag))
              /\ UNCHANGED lr_steps
    /\ pc' = "lr_step"
    /\ UNCHANGED <<hyper, was_training,
                   err, training, best_metric, epoch_id, cur_metric,
                   result, train_output_info>>

\* viv.py 147-158: the "best_model" checkpoint carries best_metric itself
SaveBest ==
    /\ pc = "save_best"
    /\ calls' = Append(calls, SaveCheckpoint(epoch_id, best_metric, BestTag))
    /\ pc' = "lr_step"
    /\ UNCHANGED <<hyper, was_training,
                   err, training, best_metric, epoch_id, cur_metric,
                   result, train_output_info, lr_steps>>

SaveBestRaises ==
    /\ pc = "save_best"
    /\ calls' = Append(calls, SaveCheckpoint(epoch_id, best_metric, BestTag))
    /\ Raise("save_best")
    /\ UNCHANGED <<hyper, was_training,
                   training, best_metric, epoch_id, cur_metric,
                   result, train_output_info, lr_steps>>

\* a step taken whatever the schedule's cadence flag says
LrStepAlways ==
    /\ pc = "lr_step"
    /\ lr_steps' = lr_steps + 1
    /\ calls' = Append(calls, Call("step", epoch_id, NoTag, NoRecord))
    /\ pc' = IF SaveDue(epoch_id) THEN "save_epoch" ELSE "save_latest"
    /\ UNCHANGED <<hyper, was_training,
                   err, training, best_metric, epoch_id, cur_metric,
                   result, train_output_info>>

\* viv.py 161-162: if solver.lr_scheduler.by_epoch: solver.lr_scheduler.step()
LrStep ==
    /\ pc = "lr_step"
    /\ IF by_epoch
         THEN /\ lr_steps' = lr_steps + 1
              /\ calls' = Append(calls, Call("step", epoch_id, NoTag, NoRecord))
         ELSE UNCHANGED <<lr_steps, calls>>
    /\ pc' = IF SaveDue(epoch_id) THEN "save_epoch" ELSE "save_latest"
    /\ UNCHANGED <<hyper, was_training,
                   err, training, best_metric, epoch_id, cur_metric,
                   result, train_output_info>>

\* viv.py 165-173: the "epoch_{epoch_id}" checkpoint
SaveEpoch ==
    /\ pc = "save_epoch"
    /\ calls' = Append(calls,
           SaveCheckpoint(epoch_id, [metric |-> cur_metric, epoch |-> epoch_id],
                          EpochTag(epoch_id)))
    /\ pc' = "save_latest"
    /\ UNCHANGED <<hyper, was_training,
                   err, training, best_metric, epoch_id, cur_metric,
                   result, train_output_info, lr_steps>>

\* the exception of the epoch checkpoint caught and the loop carried on
SaveEpochRaisesCaught ==
    /\ pc = "save_epoch"
    /\ calls' = Append(calls,
           SaveCheckpoint(epoch_id, [metric |-> cur_metric, epoch |-> epoch_id],
                          EpochTag(epoch_id)))
    /\ err' = "save_epoch"
    /\ pc' = "save_latest"
    /\ UNCHANGED <<hyper, was_training,
                   training, best_metric, epoch_id, cur_metric,
                   result, train_output_info, lr_steps>>

SaveEpochRaises ==
    /\ pc = "save_epoch"
    /\ calls' = Append(calls,
           SaveCheckpoint(epoch_id, [metric |-> cur_metric, epoch |-> epoch_id],
                          EpochTag(epoch_id)))
    /\ Raise("save_epoch")
    /\ UNCHANGED <<hyper, was_training,
                   training, best_metric, epoch_id, cur_metric,
                   result, train_output_info, lr_steps>>

\* the "latest" write moved under the save_freq test
SaveLatestOnCadence ==
    /\ pc = "save_latest"
    /\ IF SaveDue(epoch_id)
         THEN calls' = Append(calls,
                  SaveCheckpoint(epoch_id,
                                 [metric |-> cur_metric, epoch |-> epoch_id],
                                 LatestTag))
         ELSE UNCHANGED calls
    /\ pc' = "for"
    /\ UNCHANGED <<hyper, was_training,
                   err, training, best_metric, epoch_id, cur_metric,
                   result, train_output_info, lr_steps>>

\* viv.py 176-183: the "latest" checkpoint, then back to the loop header
SaveLatest ==
    /\ pc = "save_latest"
    /\ calls' = Append(calls,
           SaveCheckpoint(epoch_id, [metric |-> cur_metric, epoch |-> epoch_id],
                          LatestTag))
    /\ pc' = "for"
    /\ UNCHANGED <<hyper, was_training,
                   err, training, best_metric, epoch_id, cur_metric,
                   result, train_output_info, lr_steps>>

SaveLatestRaises ==
    /\ pc = "save_latest"
    /\ calls' = Append(calls,
           SaveCheckpoint(epoch_id, [metric |-> cur_metric, epoch |-> epoch_id],
                          LatestTag))
    /\ Raise("save_latest")
    /\ UNCHANGED <<hyper, was_training,
                   training, best_metric, epoch_id, cur_metric,
                   result, train_output_info, lr_steps>>

\* viv.py 186-187: solver.vdl_writer is None (line 263), nothing to close
CloseVdl ==
    /\ pc = "close"
    /\ pc' = "done"
    /\ UNCHANGED <<hyper, was_training,
                   err, training, best_metric, epoch_id, cur_metric,
                   result, train_output_info, lr_steps, calls>>

Next ==
    \/ ForEpoch
    \/ TrainEpoch
    \/ TrainEpochRaises
    \/ LogTrain
    \/ EvalEnter
    \/ EvalFunc
    \/ EvalFuncRaises
    \/ EvalExit
    \/ CompareBest
    \/ SaveBest
    \/ SaveBestRaises
    \/ LrStep
    \/ SaveEpoch
    \/ SaveEpochRaises
    \/ SaveLatest
    \/ SaveLatestRaises
    \/ CloseVdl

Spec == Init /\ [][Next]_vars

\* the interpreter runs the driver to its end or to the exception
FairSpec == Spec /\ WF_vars(Next)

\* ------------------------------------------- initializer: pure functions
\* the shapes of the tensors: every rank up to MaxRank, positive dimensions
Shapes == UNION {[1..r -> 1..MaxDim] : r \in 0..MaxRank}

RECURSIVE Prod(_)
\* np.prod of a sequence of dimensions (1 for the empty sequence)
Prod(sh) == IF sh = <<>> THEN 1 ELSE Head(sh) * Prod(Tail(sh))

\* str.lower() on the mode strings of the model
Lower(m) ==
    CASE m = "Fan_In"  -> "fan_in"
      [] m = "FAN_OUT" -> "fan_out"
      [] OTHER         -> m

\* a fan computation that forgets the reverse flag
CalculateFanIgnoresReverse(sh, rev) ==
    IF Len(sh) < 2
      THEN [exc |-> ValueError("ndim"), fans |-> <<0, 0>>]
      ELSE LET receptive_field_size == Prod(SubSeq(sh, 3, Len(sh)))
           IN [exc |-> NoExc,
               fans |-> <<sh[2] * receptive_field_size,
                          sh[1] * receptive_field_size>>]

\* a fan computation without the rank test, a missing dimension counting 1
CalculateFanNoRankTest(sh, rev) ==
    LET d0 == IF Len(sh) >= 1 THEN sh[1] ELSE 1
        d1 == IF Len(sh) >= 2 THEN sh[2] ELSE 1
        receptive_field_size == Prod(SubSeq(sh, 3, Len(sh)))
    IN [exc |-> NoExc,
        fans |-> IF rev THEN <<d0 * receptive_field_size,
                               d1 * receptive_field_size>>
                        ELSE <<d1 * receptive_field_size,
                               d0 * receptive_field_size>>]

\* initializer.py 232-262: _calculate_fan_in_and_fan_out(tensor, reverse);
\* sh[1], sh[2] are tensor.shape[0], tensor.shape[1]
CalculateFanInAndFanOut(sh, rev) ==
    IF Len(sh) < 2
      THEN [exc |-> ValueError("ndim"), fans |-> <<0, 0>>]
      ELSE LET num_input_fmaps == IF rev THEN sh[1] ELSE sh[2]
               num_output_fmaps == IF rev THEN sh[2] ELSE sh[1]
               receptive_field_size == Prod(SubSeq(sh, 3, Len(sh)))
           IN [exc |-> NoExc,
               fans |-> <<num_input_fmaps * receptive_field_size,
                          num_output_fmaps * receptive_field_size>>]

ValidModes == {"fan_in", "fan_out"}

\* a fan selection that takes fan_out for "fan_in" and fan_in for "fan_out"
CalculateCorrectFanSwapped(sh, m, rev) ==
    IF Lower(m) \notin ValidModes
      THEN [exc |-> ValueError("mode"), fans |-> <<0, 0>>, fan |-> 0]
      ELSE LET r == CalculateFanInAndFanOut(sh, rev)
           IN IF r.exc # NoExc
                THEN [exc |-> r.exc, fans |-> <<0, 0>>, fan |-> 0]
                ELSE [exc |-> NoExc, fans |-> r.fans,
                      fan |-> IF Lower(m) = "fan_in"
                                THEN r.fans[2] ELSE r.fans[1]]

\* a fan selection that computes the fans before it tests the mode
CalculateCorrectFanRankFirst(sh, m, rev) ==
    LET r == CalculateFanInAndFanOut(sh, rev)
    IN IF r.exc # NoExc
         THEN [exc |-> r.exc, fans |-> <<0, 0>>, fan |-> 0]
       ELSE IF Lower(m) \notin ValidModes
         THEN [exc |-> ValueError("mode"), fans |-> <<0, 0>>, fan |-> 0]
       ELSE [exc |-> NoExc, fans |-> r.fans,
             fan |-> IF Lower(m) = "fan_in" THEN r.fans[1] ELSE r.fans[2]]

\* initializer.py 317-325: _calculate_correct_fan(tensor, mode, reverse)
CalculateCorrectFan(sh, m, rev) ==
    IF Lower(m) \notin ValidModes
      THEN [exc |-> ValueError("mode"), fans |-> <<0, 0>>, fan |-> 0]
      ELSE LET r == CalculateFanInAndFanOut(sh, rev)
           IN IF r.exc # NoExc
                THEN [exc |-> r.exc, fans |-> <<0, 0>>, fan |-> 0]
                ELSE [exc |-> NoExc, fans |-> r.fans,
                      fan |-> IF Lower(m) = "fan_in"
                                THEN r.fans[1] ELSE r.fans[2]]

linear_fns == {"linear", "conv1d", "conv2d", "conv3d", "conv_transpose1d",
               "conv_transpose2d", "conv_transpose3d"}

\* a gain table whose "relu" entry is 2 instead of sqrt(2)
CalculateGainReluTwo(nl, param) ==
    IF nl \in linear_fns \/ nl = "sigmoid" THEN [exc |-> NoExc, gain |-> Frac(1, 1)]
    ELSE IF nl = "tanh" THEN [exc |-> NoExc, gain |-> Frac(25, 9)]
    ELSE IF nl = "relu" THEN [exc |-> NoExc, gain |-> Frac(4, 1)]
    ELSE IF nl = "leaky_relu" THEN
      IF param.kind = "none"
        THEN [exc |-> NoExc, gain |-> Frac(20000, 10000 + 1 * 1)]
      ELSE IF param.kind \in {"int", "float"}
        THEN [exc |-> NoExc, gain |-> Frac(20000, 10000 + param.v * param.v)]
      ELSE [exc |-> ValueError("negative_slope"), gain |-> NoFrac]
    ELSE IF nl = "selu" THEN [exc |-> NoExc, gain |-> Frac(9, 16)]
    ELSE [exc |-> ValueError("nonlinearity"), gain |-> NoFrac]

\* initializer.py 328-360: _calculate_gain(nonlinearity, param). The result
\* is kept squared, as a fraction: 1, (5/3)^2, 2, 2 / (1 + negative_slope^2)
\* and (3/4)^2; negative_slope is in hundredths, 0.01 being 1.
CalculateGain(nl, param) ==
    IF nl \in linear_fns \/ nl = "sigmoid" THEN [exc |-> NoExc, gain |-> Frac(1, 1)]
    ELSE IF nl = "tanh" THEN [exc |-> NoExc, gain |-> Frac(25, 9)]
    ELSE IF nl = "relu" THEN [exc |-> NoExc, gain |-> Frac(2, 1)]
    ELSE IF nl = "leaky_relu" THEN
      IF param.kind = "none"
        THEN [exc |-> NoExc, gain |-> Frac(20000, 10000 + 1 * 1)]
      ELSE IF param.kind \in {"int", "float"}
        THEN [exc |-> NoExc, gain |-> Frac(20000, 10000 + param.v * param.v)]
      ELSE [exc |-> ValueError("negative_slope"), gain |-> NoFrac]
    ELSE IF nl = "selu" THEN [exc |-> NoExc, gain |-> Frac(9, 16)]
    ELSE [exc |-> ValueError("nonlinearity"), gain |-> NoFrac]

\* initializer.py 365, 400: `a: float = 0`, the value kaiming_* pass on as
\* param when the caller leaves `a` out
SlopePassed(a) == IF a.kind = "omitted" THEN Slope("int", 0) ELSE a

\* ---------------------------------------------- initializer: the calls
FanFns == {"_calculate_fan_in_and_fan_out"}
XavierFns == {"xavier_uniform_", "xavier_normal_"}
KaimingFns == {"kaiming_uniform_", "kaiming_normal_"}

Modes == {"fan_in", "fan_out", "Fan_In", "FAN_OUT", "bogus"}
Nonlinearities ==
    linear_fns \cup {"sigmoid", "tanh", "relu", "leaky_relu", "selu",
                     "ReLU", "bogus"}
\* `a` left out, None, 1, 0.2, True and "0.2"
Slopes == {SlopeOmitted, Slope("none", 0), Slope("int", 100),
           Slope("float", 20), Slope("bool", 100), Slope("str", 20)}

\* the arguments of the call, which no step assigns
args == <<fn, shape, reverse, fan_mode, nonlinearity, slope, mean, std,
          cut_a, cut_b>>

\* the defaults of the arguments a function does not take
NoKaimingArgs ==
    fan_mode = "fan_in" /\ nonlinearity = "leaky_relu" /\ slope = SlopeOmitted
NoTruncArgs == mean = 0 /\ std = 1 /\ cut_a = 0 /\ cut_b = 0

InitFan ==
    /\ fn \in FanFns \cup XavierFns
    /\ shape \in Shapes
    /\ reverse \in BOOLEAN
    /\ NoKaimingArgs /\ NoTruncArgs
    /\ bias = NoBias

InitKaiming ==
    /\ fn \in KaimingFns
    /\ shape \in Shapes
    /\ reverse \in BOOLEAN
    /\ fan_mode \in Modes
    /\ nonlinearity \in Nonlinearities
    /\ slope \in IF nonlinearity = "leaky_relu"
                   THEN Slopes ELSE {SlopeOmitted, Slope("str", 20)}
    /\ NoTruncArgs
    /\ bias = NoBias

\* an exception leaves the call: initializer.py has no try statement
IRaise(e) ==
    /\ ipc' = "raised"
    /\ exc' = e

\* initializer.py 245-262, called directly or from xavier_* (285, 311)
CalcFan ==
    /\ ipc = "start"
    /\ fn \in FanFns \cup XavierFns
    /\ LET r == CalculateFanInAndFanOut(shape, reverse)
       IN IF r.exc # NoExc
            THEN IRaise(r.exc) /\ UNCHANGED fans
            ELSE /\ fans' = r.fans
                 /\ ipc' = IF fn \in FanFns THEN "returned" ELSE "fill"
                 /\ UNCHANGED exc
    /\ UNCHANGED <<dvars, cvars, args,
                   warned, fan, gain, sample, elem, weight, bias>>

\* initializer.py 286-288 and 312-313, gain = 1.0: std^2 = 2 / (fan_in +
\* fan_out), and the uniform bound k^2 = 3 std^2
XavierFill ==
    /\ ipc = "fill"
    /\ fn \in XavierFns
    /\ weight' = IF fn = "xavier_uniform_"
                   THEN [dist |-> "uniform", num |-> 3 * 2,
                         den |-> fans[1] + fans[2]]
                   ELSE [dist |-> "normal", num |-> 2,
                         den |-> fans[1] + fans[2]]
    /\ ipc' = "returned"
    /\ UNCHANGED <<dvars, cvars, args,
                   exc, warned, fans, fan, gain, sample, elem,
                   bias>>

\* initializer.py 391 and 425: fan = _calculate_correct_fan(tensor, mode,
\* reverse)
CorrectFan ==
    /\ ipc = "start"
    /\ fn \in KaimingFns
    /\ LET r == CalculateCorrectFan(shape, fan_mode, reverse)
       IN IF r.exc # NoExc
            THEN IRaise(r.exc) /\ UNCHANGED <<fans, fan>>
            ELSE /\ fans' = r.fans
                 /\ fan' = r.fan
                 /\ ipc' = "gain"
                 /\ UNCHANGED exc
    /\ UNCHANGED <<dvars, cvars, args,
                   warned, gain, sample, elem, weight, bias>>

\* initializer.py 392 and 426: gain = _calculate_gain(nonlinearity, a)
KaimingGain ==
    /\ ipc = "gain"
    /\ LET r == CalculateGain(nonlinearity, SlopePassed(slope))
       IN IF r.exc # NoExc
            THEN IRaise(r.exc) /\ UNCHANGED gain
            ELSE /\ gain' = r.gain
                 /\ ipc' = "fill"
                 /\ UNCHANGED exc
    /\ UNCHANGED <<dvars, cvars, args,
                   warned, fans, fan, sample, elem, weight, bias>>

\* initializer.py 393-395 and 427-428: std^2 = gain^2 / fan, and the uniform
\* bound k^2 = 3 std^2
KaimingFill ==
    /\ ipc = "fill"
    /\ fn \in KaimingFns
    /\ weight' = IF fn = "kaiming_uniform_"
                   THEN [dist |-> "uniform", num |-> 3 * gain.num,
                         den |-> gain.den * fan]
                   ELSE [dist |-> "normal", num |-> gain.num,
                         den |-> gain.den * fan]
    /\ ipc' = "returned"
    /\ UNCHANGED <<dvars, cvars, args,
                   exc, warned, fans, fan, gain, sample, elem,
                   bias>>

TruncFns == {"trunc_normal_"}
LayerFns == {"linear_init_", "conv_init_"}

\* the values an element can hold before the clip of line 96: anything from
\* below every cut to above every cut (erfinv gives -inf and inf at -1 and 1)
Samples == (0 - MaxCut - 1)..(MaxCut + 1)

\* paddle.clip(x, min=a, max=b) on one element, for a <= b
Clip(x, a, b) == IF x < a THEN a ELSE IF x > b THEN b ELSE x

\* a bound taken from the whole shape of the weight
BoundFromWholeShape(f, sh) == Frac(1, Prod(sh))

\* initializer.py 438 and 450: bound = 1 / sqrt(weight.shape[0]) and
\* bound = 1 / sqrt(prod(weight.shape[1:])), kept squared
Bound(f, sh) ==
    IF f = "linear_init_" THEN Frac(1, sh[1]) ELSE Frac(1, Prod(Tail(sh)))

\* one tensor element stands for all; the cuts are ordered and std >= 0
InitTrunc ==
    /\ fn \in TruncFns
    /\ shape = <<1>>
    /\ reverse = FALSE
    /\ NoKaimingArgs
    /\ mean \in (0 - MaxMean)..MaxMean
    /\ std \in 0..MaxStd
    /\ cut_a \in (0 - MaxCut)..MaxCut
    /\ cut_b \in cut_a..MaxCut
    /\ bias = NoBias

\* a layer with a weight of rank >= 1 and a bias that is a tensor or None
InitLayer ==
    /\ fn \in LayerFns
    /\ shape \in {sh \in Shapes : Len(sh) >= 1}
    /\ reverse = FALSE
    /\ NoKaimingArgs /\ NoTruncArgs
    /\ bias \in {NoBias, Empty}

\* a warning test that raises instead of logging
TruncWarnFatal ==
    /\ ipc = "start"
    /\ fn \in TruncFns
    /\ IF (mean < cut_a - 2 * std) \/ (mean > cut_b + 2 * std)
         THEN IRaise(ValueError("mean")) /\ warned' = TRUE
         ELSE ipc' = "cdf" /\ warned' = FALSE /\ UNCHANGED exc
    /\ UNCHANGED <<dvars, cvars, args,
                   fans, fan, gain, sample, elem, weight, bias>>

\* initializer.py 69-73: the warning, which only logs
TruncWarn ==
    /\ ipc = "start"
    /\ fn \in TruncFns
    /\ warned' = ((mean < cut_a - 2 * std) \/ (mean > cut_b + 2 * std))
    /\ ipc' = "cdf"
    /\ UNCHANGED <<dvars, cvars, args,
                   exc, fans, fan, gain, sample, elem, weight,
                   bias>>

\* initializer.py 78-79: (a - mean) / std, a float division
TruncCdf ==
    /\ ipc = "cdf"
    /\ IF std = 0
         THEN IRaise(ZeroDivisionError)
         ELSE ipc' = "sample" /\ UNCHANGED exc
    /\ UNCHANGED <<dvars, cvars, args,
                   warned, fans, fan, gain, sample, elem, weight,
                   bias>>

\* initializer.py 83-93: uniform draw, erfinv_, multiply and add
TruncSample ==
    /\ ipc = "sample"
    /\ sample' \in Samples
    /\ ipc' = "clip"
    /\ UNCHANGED <<dvars, cvars, args,
                   exc, warned, fans, fan, gain, elem, weight,
                   bias>>

\* a write of the sample as drawn
TruncWriteUnclipped ==
    /\ ipc = "clip"
    /\ elem' = sample
    /\ weight' = [dist |-> "trunc_normal", num |-> std * std, den |-> 1]
    /\ ipc' = "returned"
    /\ UNCHANGED <<dvars, cvars, args,
                   exc, warned, fans, fan, gain, sample, bias>>

\* initializer.py 96-98: clip, set_value, return
TruncClip ==
    /\ ipc = "clip"
    /\ elem' = Clip(sample, cut_a, cut_b)
    /\ weight' = [dist |-> "trunc_normal", num |-> std * std, den |-> 1]
    /\ ipc' = "returned"
    /\ UNCHANGED <<dvars, cvars, args,
                   exc, warned, fans, fan, gain, sample, bias>>

\* initializer.py 438-439 and 450-451: uniform_(module.weight, -bound, bound)
LayerWeight ==
    /\ ipc = "start"
    /\ fn \in LayerFns
    /\ weight' = [dist |-> "uniform", num |-> Bound(fn, shape).num,
                  den |-> Bound(fn, shape).den]
    /\ ipc' = "bias"
    /\ UNCHANGED <<dvars, cvars, args,
                   exc, warned, fans, fan, gain, sample, elem,
                   bias>>

\* initializer.py 439-440 and 451-452: the bias, when it is not None
LayerBias ==
    /\ ipc = "bias"
    /\ bias' = IF bias # NoBias
                 THEN [dist |-> "uniform", num |-> Bound(fn, shape).num,
                       den |-> Bound(fn, shape).den]
                 ELSE bias
    /\ ipc' = "returned"
    /\ UNCHANGED <<dvars, cvars, args,
                   exc, warned, fans, fan, gain, sample, elem,
                   weight>>

\* the driver at rest while an initializer is called
DriverIdle ==
    /\ mode = "none" /\ pc = "none" /\ err = "none"
    /\ epochs = 0 /\ save_freq = 0 /\ eval_during_train = FALSE
    /\ eval_freq = 1 /\ start_eval_epoch = 1 /\ by_epoch = FALSE
    /\ training = TRUE /\ was_training = TRUE
    /\ best_metric = [metric |-> Inf, epoch |-> 0]
    /\ epoch_id = 0 /\ cur_metric = Inf /\ result = Inf
    /\ train_output_info = {} /\ lr_steps = 0 /\ calls = <<>>

\* one call of one function of the module on a tensor from paddle.empty
InitI ==
    /\ DriverIdle
    /\ CompareIdle
    /\ ipc = "start"
    /\ exc = NoExc /\ warned = FALSE
    /\ fans = <<0, 0>> /\ fan = 0 /\ gain = NoFrac
    /\ sample = 0 /\ elem = 0
    /\ weight = Empty
    /\ \/ InitFan
       \/ InitKaiming
       \/ InitTrunc
       \/ InitLayer

NextI ==
    \/ CalcFan
    \/ XavierFill
    \/ CorrectFan
    \/ KaimingGain
    \/ KaimingFill
    \/ TruncWarn
    \/ TruncCdf
    \/ TruncSample
    \/ TruncClip
    \/ LayerWeight
    \/ LayerBias

SpecI == InitI /\ [][NextI]_vars

\* ------------------------------------- tests/models/configtrans.py: compare
Numbers == 0..MaxVal
Arrays ==
    {Array(sh, "float", v) : sh \in 1..MaxShape, v \in Numbers}
      \cup {Array(sh, "int", v) : sh \in 1..MaxShape,
                                  v \in {n \in Numbers : n % 2 = 0}}
Scalars == {Scalar(v) : v \in Numbers}
\* the items of a list: numbers and values of other types
ListItems == Scalars \cup {Other}
Lists == {List(it) : it \in UNION {[1..n -> ListItems] : n \in 0..MaxLen}}
CompareModes == {"close", "equal", "shape"}

\* np.allclose(a, b, atol=delta, rtol=rtol) on numbers in halves, the rtol
\* term being less than a half
Close(a, b, d) == (IF a >= b THEN a - b ELSE b - a) <= d

\* ndarray.astype(dtype) on one element: an int dtype truncates
AsType(v, dt) == IF dt = "int" THEN v - (v % 2) ELSE v

\* the stored results a result is compared with: an array with an array, a
\* number with a number, a list with a list of any length whose items pair
\* numbers with numbers
ItemPairs(r, e) ==
    \A k \in 1..Len(r.items) :
      (k <= Len(e.items) /\ r.items[k].kind = "scalar") =>
        e.items[k].kind = "scalar"
ExpectsFor(r) ==
    CASE r.kind = "array"  -> Arrays
      [] r.kind = "scalar" -> Scalars
      [] r.kind = "list"   -> {e \in Lists : ItemPairs(r, e)}
      [] OTHER             -> ListItems

\* configtrans.py 147-165 on a value that is no list: the exception raised,
\* "none" when the call returns
CompareValue(r, e, d, m) ==
    IF r.kind = "array" THEN
      IF r.shape # e.shape THEN "AssertionError"
      ELSE IF m = "close"
        THEN IF Close(r.v, e.v, d) THEN "none" ELSE "AssertionError"
      ELSE IF m = "equal"
        THEN IF AsType(r.v, e.dtype) = e.v THEN "none" ELSE "AssertionError"
      ELSE "none"
    ELSE IF r.kind = "scalar" THEN
      IF m = "close"
        THEN IF Close(r.v, e.v, d) THEN "none" ELSE "AssertionError"
      ELSE IF m = "equal"
        THEN IF r.v = e.v THEN "none" ELSE "AssertionError"
      ELSE "none"
    ELSE "none"

\* the call ends, by a return or by the exception x
CompareEnds(x) ==
    /\ cexc' = x
    /\ cpc' = IF x = "none" THEN "returned" ELSE "raised"

\* configtrans.py 147-154: isinstance(res, np.ndarray)
CompareArray ==
    /\ cpc = "start"
    /\ res.kind = "array"
    /\ CompareEnds(CompareValue(res, expect, delta, cmp_mode))
    /\ UNCHANGED <<dvars, ivars, res, expect, delta, cmp_mode, idx>>

\* configtrans.py 155-157: one turn of the loop over a list or tuple, the
\* call of compare on the item included
CompareList ==
    /\ cpc \in {"start", "loop"}
    /\ res.kind = "list"
    /\ IF idx > Len(res.items)
         THEN CompareEnds("none") /\ UNCHANGED idx
       ELSE IF idx > Len(expect.items)
         THEN CompareEnds("IndexError") /\ UNCHANGED idx
       ELSE LET x == CompareValue(res.items[idx], expect.items[idx], delta,
                                  cmp_mode)
            IN IF x = "none"
                 THEN idx' = idx + 1 /\ cpc' = "loop" /\ UNCHANGED cexc
                 ELSE CompareEnds(x) /\ UNCHANGED idx
    /\ UNCHANGED <<dvars, ivars, res, expect, delta, cmp_mode>>

\* configtrans.py 158-163: isinstance(res, (int, float, complex, bool))
CompareScalar ==
    /\ cpc = "start"
    /\ res.kind = "scalar"
    /\ CompareEnds(CompareValue(res, expect, delta, cmp_mode))
    /\ UNCHANGED <<dvars, ivars, res, expect, delta, cmp_mode, idx>>

\* an else branch that fails the assertion
CompareOtherRaises ==
    /\ cpc = "start"
    /\ res.kind = "other"
    /\ CompareEnds("AssertionError")
    /\ UNCHANGED <<dvars, ivars, res, expect, delta, cmp_mode, idx>>

\* configtrans.py 164-165: `assert TypeError`, the assertion of a class,
\* which is true
CompareOther ==
    /\ cpc = "start"
    /\ res.kind = "other"
    /\ CompareEnds(CompareValue(res, expect, delta, cmp_mode))
    /\ UNCHANGED <<dvars, ivars, res, expect, delta, cmp_mode, idx>>

\* one call of compare(res, expect, delta, rtol, mode)
InitC ==
    /\ DriverIdle
    /\ InitializerIdle
    /\ res \in Arrays \cup Scalars \cup Lists \cup {Other}
    /\ expect \in ExpectsFor(res)
    /\ delta \in 0..MaxDelta
    /\ cmp_mode \in CompareModes
    /\ idx = 1
    /\ cpc = "start"
    /\ cexc = "none"

NextC ==
    \/ CompareArray
    \/ CompareList
    \/ CompareScalar
    \/ CompareOther

SpecC == InitC /\ [][NextC]_vars

\* ------------------------------------------------------- views of history
CallIdx == 1..Len(calls)

\* where the driver is in the current epoch; after an exception, where it was
Stage == IF pc = "raised" THEN err ELSE pc

Rank(st) ==
    CASE st = "train_epoch" -> 1
      [] st = "log_train"   -> 2
      [] st = "eval_enter"  -> 3
      [] st = "eval_func"   -> 4
      [] st = "eval_exit"   -> 5
      [] st = "compare"     -> 6
      [] st = "save_best"   -> 7
      [] st = "lr_step"     -> 8
      [] st = "save_epoch"  -> 9
      [] st = "save_latest" -> 10
      [] OTHER              -> 11

\* the current epoch has gone through position st (a call that raised was made)
Passed(st) == Rank(Stage) > Rank(st) \/ (pc = "raised" /\ err = st)

IsSave(c, name) == c.op = "save" /\ c.tag.name = name
IsLatest(c) == IsSave(c, "latest")
IsTrainCall(c) == c.op = "train"

\* the indices of the calls of kind op made during epoch e
CallsIn(op, e) == {i \in CallIdx : calls[i].op = op /\ calls[i].epoch = e}
SavesIn(name, e) == {i \in CallIdx : IsSave(calls[i], name) /\ calls[i].epoch = e}

\* the epochs in which an evaluation was invoked
EvaluatedEpochs == {calls[i].epoch : i \in {j \in CallIdx : calls[j].op = "eval"}}

\* ----------------------------------------------------------------- claims

\* C1: every epoch of train() requests exactly one "latest" checkpoint, in
\* increasing epoch order, whatever the cadences are: the k-th "latest" write
\* is that of epoch k, an epoch that has gone through line 176 has its write,
\* one that has not has none, and a completed run of N epochs has made N.
C1_LatestEveryEpoch ==
    LET L == SelectSeq(calls, IsLatest) IN
    mode = "train" =>
      /\ \A k \in 1..Len(L) : L[k].epoch = k
      /\ Len(L) = IF epoch_id > 0 /\ ~Passed("save_latest")
                    THEN epoch_id - 1 ELSE epoch_id
      /\ pc = "done" => Len(L) = epochs

C1_Witness ==
    /\ mode = "train" /\ pc = "done" /\ epochs = MaxEpochs
    /\ save_freq = 3 /\ eval_freq = 2 /\ eval_during_train
    /\ Len(SelectSeq(calls, IsLatest)) = MaxEpochs

\* C2: evaluation is invoked in epoch e exactly when eval_during_train,
\* e % eval_freq = 0 and e >= start_eval_epoch, at most once; the first
\* evaluated epoch is the least multiple of eval_freq that is no less than
\* start_eval_epoch; 5 epochs with eval_freq 2 from epoch 1 evaluate {2, 4}.
C2_EvalCadence ==
    mode = "train" =>
      /\ \A e \in 1..epoch_id :
           Cardinality(CallsIn("eval", e)) =
             IF /\ eval_during_train
                /\ e % eval_freq = 0
                /\ e >= start_eval_epoch
                /\ (e < epoch_id \/ Passed("eval_enter"))
               THEN 1 ELSE 0
      /\ \A e \in EvaluatedEpochs :
           (\A f \in EvaluatedEpochs : e <= f) =>
             /\ e % eval_freq = 0
             /\ e >= start_eval_epoch
             /\ e - eval_freq < start_eval_epoch
      /\ ( /\ pc = "done" /\ epochs = 5 /\ eval_during_train
           /\ eval_freq = 2 /\ start_eval_epoch = 1 )
           => EvaluatedEpochs = {2, 4}

C2_Witness ==
    /\ mode = "train" /\ pc = "done" /\ epochs = 5 /\ eval_during_train
    /\ eval_freq = 2 /\ start_eval_epoch = 3
    /\ EvaluatedEpochs = {4}

\* the scalar returned by the evaluation of epoch e, Inf when none returned
EvalResultOf(e) ==
    IF \E i \in CallIdx : calls[i].op = "eval_ret" /\ calls[i].epoch = e
      THEN LET i == CHOOSE j \in CallIdx :
                        calls[j].op = "eval_ret" /\ calls[j].epoch = e
           IN calls[i].rec.metric
      ELSE Inf

\* the least scalar returned by the evaluations before call i, Inf when none
BestBefore(i) ==
    LET R == {calls[j].rec.metric :
                j \in {k \in 1..(i - 1) : calls[k].op = "eval_ret"}} \cup {Inf}
    IN CHOOSE m \in R : \A n \in R : m <= n

\* C3: the best-metric record changes only in the step that follows an
\* evaluation of the current epoch whose scalar is strictly less than the
\* recorded metric, it then becomes (that scalar, that epoch), and such a
\* scalar always changes it; every other step leaves both fields as they
\* are, so the recorded metric only ever strictly decreases.
C3_BestMetricUpdates ==
    [][ /\ best_metric' # best_metric =>
             /\ pc = "compare"
             /\ calls[Len(calls)].op = "eval_ret"
             /\ calls[Len(calls)].epoch = epoch_id
             /\ calls[Len(calls)].rec.metric < best_metric.metric
             /\ best_metric' = [metric |-> calls[Len(calls)].rec.metric,
                                epoch |-> epoch_id]
             /\ best_metric'.metric < best_metric.metric
        /\ (pc = "compare" /\ cur_metric < best_metric.metric) =>
             best_metric' = [metric |-> cur_metric, epoch |-> epoch_id]
      ]_vars

\* two improvements, then an evaluation that does not improve
C3_Witness ==
    /\ pc = "lr_step"
    /\ best_metric.epoch = 2
    /\ SavesIn("best_model", 1) # {}
    /\ epoch_id = 3
    /\ EvalResultOf(3) = best_metric.metric

\* C4: a "best_model" checkpoint is requested in epoch e exactly when the
\* evaluation of epoch e improved the best-metric record; it is requested
\* after the record is updated and carries the updated record, (this epoch's
\* evaluation result, e).
C4_BestModelWrite ==
    /\ \A i \in CallIdx : IsSave(calls[i], "best_model") =>
         /\ i > 1
         /\ calls[i - 1].op = "eval_ret"
         /\ calls[i - 1].epoch = calls[i].epoch
         /\ calls[i - 1].rec.metric < BestBefore(i - 1)
         /\ calls[i].rec = [metric |-> calls[i - 1].rec.metric,
                            epoch |-> calls[i].epoch]
         /\ i = Len(calls) => calls[i].rec = best_metric
    /\ \A i \in CallIdx :
         ( /\ calls[i].op = "eval_ret"
           /\ calls[i].rec.metric < BestBefore(i)
           /\ mode = "train"
           /\ (i < Len(calls) \/ Passed("save_best")) )
         => (i < Len(calls) /\ IsSave(calls[i + 1], "best_model"))
    /\ pc = "save_best" =>
         best_metric = [metric |-> cur_metric, epoch |-> epoch_id]
    /\ \A e \in 0..epoch_id : Cardinality(SavesIn("best_model", e)) <= 1

\* a "best_model" write in epoch 2 and none in epoch 4, which was evaluated
C4_Witness ==
    /\ pc = "for" /\ epoch_id = 4
    /\ EvaluatedEpochs = {2, 4}
    /\ SavesIn("best_model", 2) # {}
    /\ SavesIn("best_model", 4) = {}
    /\ best_metric = [metric |-> EvalResultOf(2), epoch |-> 2]

\* C5: an "epoch_{e}" checkpoint is requested in epoch e exactly when
\* save_freq > 0 and e % save_freq = 0, at most once, and its tag names the
\* current epoch; 5 epochs with save_freq 3 write "epoch_3" only.
C5_EpochCheckpoint ==
    mode = "train" =>
      /\ \A e \in 1..epoch_id :
           Cardinality(SavesIn("epoch_", e)) =
             IF /\ save_freq > 0
                /\ e % save_freq = 0
                /\ (e < epoch_id \/ Passed("save_epoch"))
               THEN 1 ELSE 0
      /\ \A i \in CallIdx : IsSave(calls[i], "epoch_") =>
           calls[i].tag = [name |-> "epoch_", n |-> calls[i].epoch]
      /\ (pc = "done" /\ epochs = 5 /\ save_freq = 3) =>
           {calls[i].tag : i \in {j \in CallIdx : IsSave(calls[j], "epoch_")}}
             = {[name |-> "epoch_", n |-> 3]}

C5_Witness ==
    /\ mode = "train" /\ pc = "done" /\ epochs = 5 /\ save_freq = 3
    /\ SavesIn("epoch_", 3) # {}

\* C6: every "epoch_{e}" and "latest" checkpoint of epoch e carries
\* (cur_metric, e), where cur_metric is the scalar the evaluation of epoch e
\* returned, and infinity when epoch e was not evaluated.
C6_CheckpointMetric ==
    \A i \in CallIdx :
      (IsSave(calls[i], "epoch_") \/ IsSave(calls[i], "latest")) =>
        calls[i].rec = [metric |-> EvalResultOf(calls[i].epoch),
                        epoch |-> calls[i].epoch]

\* epoch 3 was not evaluated: its checkpoints carry infinity although epoch 2
\* returned a scalar, which is the best metric
C6_Witness ==
    /\ pc = "for" /\ epoch_id = 3
    /\ EvaluatedEpochs = {2}
    /\ best_metric.metric < Inf
    /\ \E i \in SavesIn("epoch_", 3) : calls[i].rec.metric = Inf
    /\ \E i \in SavesIn("latest", 3) : calls[i].rec.metric = Inf
    /\ \E i \in SavesIn("latest", 2) : calls[i].rec.metric = best_metric.metric

\* eval() has returned to its caller (train() at line 143, __main__ at 312)
EvalReturned ==
    /\ Len(calls) > 0
    /\ calls[Len(calls)].op = "eval_ret"
    /\ pc \in {"compare", "done"}

\* C7: when the evaluation strategy raises in an eval() that switched the
\* model from training to inference mode, the model is back in training mode
\* as the error leaves eval().
C7_ModeRestoredOnError ==
    (pc = "raised" /\ err = "eval_func" /\ was_training) => training

\* C8: eval() returns with the model in the mode it was entered in, for both
\* modes, and the evaluation strategy runs with the model in inference mode.
C8_EvalPreservesMode ==
    /\ pc = "eval_func" => ~training
    /\ EvalReturned => training = was_training

\* C9: train() is fail-fast. An exception of the training strategy, of the
\* evaluation or of a checkpoint write leaves the driver at once; the call
\* that raised is the last one made, so the epoch's later learning-rate step
\* and checkpoint writes ("latest" included) and the next epoch never happen.
C9_FailFast ==
    /\ [](err # "none" => pc = "raised")
    /\ [][pc = "raised" => UNCHANGED vars]_vars
    /\ []((pc = "raised" /\ mode = "train") =>
            /\ \A i \in CallIdx : calls[i].epoch <= epoch_id
            /\ err # "eval_func" =>
                 /\ calls[Len(calls)].epoch = epoch_id
                 /\ calls[Len(calls)].op =
                      (IF err = "train_epoch" THEN "train" ELSE "save")
            /\ err = "eval_func" =>
                 calls[Len(calls)] = Call("eval", epoch_id, NoTag, NoRecord)
            /\ err # "save_latest" => SavesIn("latest", epoch_id) = {}
            /\ err \notin {"save_latest", "save_epoch"} =>
                 /\ SavesIn("epoch_", epoch_id) = {}
                 /\ CallsIn("step", epoch_id) = {})

\* the "epoch_{e}" write raises with epochs still to run
C9_Witness ==
    /\ pc = "raised" /\ err = "save_epoch" /\ mode = "train"
    /\ epoch_id = 2 /\ epochs = MaxEpochs /\ by_epoch
    /\ CallsIn("step", 2) # {}

\* C10: there is no early stopping. The training strategy is invoked once
\* for each epoch 1, 2, ..., in increasing order, whatever the evaluations
\* return; a run that raises nothing invokes it for every epoch up to
\* `epochs` and then completes, and every run ends.
C10_RunsAllEpochs ==
    /\ [](mode = "train" =>
            LET T == SelectSeq(calls, IsTrainCall) IN
            /\ \A k \in 1..Len(T) : T[k].epoch = k
            /\ Len(T) = IF pc = "train_epoch" THEN epoch_id - 1 ELSE epoch_id
            /\ pc = "done" => (Len(T) = epochs /\ epoch_id = epochs))
    /\ <>(pc \in {"done", "raised"})
    /\ [](ENABLED Next \/ pc \in {"done", "raised"})

\* a completed run whose first evaluation returned 0 and was never improved
C10_Witness ==
    /\ mode = "train" /\ pc = "done" /\ epochs = MaxEpochs
    /\ eval_during_train /\ eval_freq = 1 /\ start_eval_epoch = 1
    /\ best_metric = [metric |-> 0, epoch |-> 1]
    /\ Len(SelectSeq(calls, IsTrainCall)) = MaxEpochs

\* C11: the loop calls lr_scheduler.step() once in every epoch when the
\* schedule's by_epoch flag is true and never when it is false; after k
\* completed epochs it has made k calls, or none.
C11_LrStepByEpoch ==
    mode = "train" =>
      /\ \A e \in 1..epoch_id :
           Cardinality(CallsIn("step", e)) =
             IF by_epoch /\ (e < epoch_id \/ Passed("lr_step")) THEN 1 ELSE 0
      /\ lr_steps = Cardinality({i \in CallIdx : calls[i].op = "step"})
      /\ pc = "for" => lr_steps = IF by_epoch THEN epoch_id ELSE 0

C11_Witness ==
    /\ mode = "train" /\ pc = "for" /\ by_epoch
    /\ epoch_id = 3 /\ lr_steps = 3

\* C20: solver.train_output_info is cleared in every epoch once the training
\* strategy has returned: it is empty when the strategy is invoked and when
\* the evaluation, the learning-rate step and the checkpoint writes of an
\* epoch happen, and holds the epoch's keys only between lines 127 and 134.
C20_TrainOutputCleared ==
    mode = "train" =>
      /\ pc \in {"train_epoch", "eval_enter", "eval_func", "eval_exit",
                 "compare", "save_best", "lr_step", "save_epoch",
                 "save_latest", "for", "close", "done"}
           => train_output_info = {}
      /\ pc = "log_train" => train_output_info = {"loss", "EQ"}
      /\ (pc = "raised" /\ err # "train_epoch") => train_output_info = {}

\* the strategy is about to be invoked for epoch 2, after epoch 1 filled and
\* cleared the aggregate
C20_Witness ==
    /\ mode = "train" /\ pc = "train_epoch" /\ epoch_id = 2
    /\ train_output_info = {}
    /\ \E i \in CallIdx : calls[i].op = "train" /\ calls[i].epoch = 1

\* ------------------------------------------- initializer: views of a call
\* equality of two fractions
FracEq(x, y) == x.num * y.den = y.num * x.den

\* the nonlinearity names _calculate_gain has an entry for
SupportedNonlinearities ==
    linear_fns \cup {"sigmoid", "tanh", "relu", "leaky_relu", "selu"}

\* the call left _calculate_fan_in_and_fan_out without an exception
FanReturned == ipc \in {"gain", "fill", "returned"}
                 \/ (ipc = "raised" /\ exc.about \notin {"mode", "ndim"})

\* the call is past _calculate_gain, by a return or by its exception
GainPassed == ipc \in {"fill", "returned"}
                \/ (ipc = "raised" /\ exc.about \notin {"mode", "ndim"})

\* the squared gain of the table for a supported name and a slope in
\* hundredths
TableGain(nl, h) ==
    CASE nl \in linear_fns \cup {"sigmoid"} -> Frac(1, 1)
      [] nl = "tanh"       -> Frac(5 * 5, 3 * 3)
      [] nl = "relu"       -> Frac(2, 1)
      [] nl = "selu"       -> Frac(3 * 3, 4 * 4)
      [] nl = "leaky_relu" -> Frac(2 * 100 * 100, 100 * 100 + h * h)

\* C12 as stated: for rank >= 2, fan_in * fan_out equals (total element
\* count / (shape[0]*shape[1])) * (shape[0]*shape[1]), and reverse=True
\* returns the swapped pair of the reverse=False call.
C12_ProductIsElementCount ==
    (fn \in FanFns /\ Len(shape) >= 2 /\ ipc = "returned") =>
      /\ fans[1] * fans[2] =
           (Prod(shape) \div (shape[1] * shape[2])) * (shape[1] * shape[2])
      /\ LET other == CalculateFanInAndFanOut(shape, ~reverse).fans
         IN fans = <<other[2], other[1]>>

\* C12 amended: for rank >= 2, fan_in * fan_out equals shape[0] * shape[1]
\* times the square of the product of shape[2:] (the receptive field size
\* enters both fans), and reverse=True returns the swapped pair of the
\* reverse=False call.
C12_FanProduct ==
    (fn \in FanFns /\ Len(shape) >= 2 /\ ipc = "returned") =>
      /\ LET receptive == Prod(shape) \div (shape[1] * shape[2])
         IN fans[1] * fans[2] =
              shape[1] * shape[2] * receptive * receptive
      /\ LET other == CalculateFanInAndFanOut(shape, ~reverse).fans
         IN fans = <<other[2], other[1]>>

C12_Witness ==
    /\ fn \in FanFns /\ ipc = "returned"
    /\ Len(shape) = 3 /\ shape[3] = 2
    /\ reverse
    /\ fans[1] # fans[2]

\* C14 as stated: kaiming_* take the gain from the table (linear family and
\* sigmoid 1, tanh 5/3, relu sqrt 2, selu 3/4, leaky_relu sqrt(2/(1+a^2)))
\* with a = 0.01 when the caller does not supply a; every other name fails.
C14_GainTableDefaultSlope ==
    (fn \in KaimingFns /\ GainPassed) =>
      IF nonlinearity \notin SupportedNonlinearities
        THEN ipc = "raised" /\ exc = ValueError("nonlinearity")
      ELSE IF nonlinearity = "leaky_relu"
        THEN /\ slope.kind \in {"omitted", "none"} =>
                  ipc # "raised" /\ FracEq(gain, TableGain(nonlinearity, 1))
             /\ slope.kind \in {"int", "float"} =>
                  ipc # "raised"
                    /\ FracEq(gain, TableGain(nonlinearity, slope.v))
      ELSE ipc # "raised" /\ FracEq(gain, TableGain(nonlinearity, 0))

\* C14 amended: kaiming_* take the gain from the table (linear family and
\* sigmoid 1, tanh 5/3, relu sqrt 2, selu 3/4, leaky_relu sqrt(2/(1+a^2)));
\* the slope a is 0 when the caller leaves a out and 0.01 only when the
\* caller passes a=None; every other name fails with ValueError.
C14_GainTable ==
    (fn \in KaimingFns /\ GainPassed) =>
      IF nonlinearity \notin SupportedNonlinearities
        THEN ipc = "raised" /\ exc = ValueError("nonlinearity")
      ELSE IF nonlinearity = "leaky_relu"
        THEN /\ slope.kind = "omitted" =>
                  ipc # "raised" /\ FracEq(gain, TableGain(nonlinearity, 0))
             /\ slope.kind = "none" =>
                  ipc # "raised" /\ FracEq(gain, TableGain(nonlinearity, 1))
             /\ slope.kind \in {"int", "float"} =>
                  ipc # "raised"
                    /\ FracEq(gain, TableGain(nonlinearity, slope.v))
      ELSE ipc # "raised" /\ FracEq(gain, TableGain(nonlinearity, 0))

C14_Witness ==
    /\ fn = "kaiming_uniform_" /\ ipc = "returned"
    /\ nonlinearity = "leaky_relu" /\ slope = SlopeOmitted
    /\ FracEq(gain, Frac(2, 1))
    /\ weight.dist = "uniform"

\* C15 as stated: kaiming_* fail with ValueError for every mode value other
\* than "fan_in" and "fan_out" and for every nonlinearity name outside the
\* table; mode "fan_in" uses fan_in and mode "fan_out" uses fan_out.
C15_ModeExact ==
    (fn \in KaimingFns /\ ipc # "start") =>
      /\ fan_mode \notin ValidModes =>
           ipc = "raised" /\ exc.type = "ValueError"
      /\ (nonlinearity \notin SupportedNonlinearities /\ ipc # "gain") =>
           ipc = "raised" /\ exc.type = "ValueError"
      /\ (fan_mode = "fan_in" /\ FanReturned) => fan = fans[1]
      /\ (fan_mode = "fan_out" /\ FanReturned) => fan = fans[2]

\* C15 amended: kaiming_* fail with ValueError for every mode string whose
\* lower-case form is neither "fan_in" nor "fan_out" (the mode is compared
\* case-insensitively, the nonlinearity name is not) and for every
\* nonlinearity name outside the table; a mode that lower-cases to "fan_in"
\* uses fan_in and one that lower-cases to "fan_out" uses fan_out.
C15_ModeLowerCased ==
    (fn \in KaimingFns /\ ipc # "start") =>
      /\ Lower(fan_mode) \notin ValidModes =>
           ipc = "raised" /\ exc = ValueError("mode")
      /\ (nonlinearity \notin SupportedNonlinearities /\ ipc # "gain") =>
           ipc = "raised" /\ exc.type = "ValueError"
      /\ FanReturned =>
           /\ fans = CalculateFanInAndFanOut(shape, reverse).fans
           /\ Lower(fan_mode) = "fan_in" => fan = fans[1]
           /\ Lower(fan_mode) = "fan_out" => fan = fans[2]

C15_Witness ==
    /\ fn = "kaiming_uniform_" /\ ipc = "returned"
    /\ fan_mode = "FAN_OUT"
    /\ fans[1] # fans[2]
    /\ fan = fans[2]

\* C16: _calculate_fan_in_and_fan_out fails with ValueError for every tensor
\* of rank 0 or 1 and never fails for rank >= 2; xavier_uniform_,
\* xavier_normal_, kaiming_uniform_ and kaiming_normal_ fail on every tensor
\* of rank < 2.
C16_RankBelowTwoFails ==
    /\ (fn \in FanFns /\ ipc # "start") =>
         IF Len(shape) < 2
           THEN ipc = "raised" /\ exc = ValueError("ndim")
           ELSE ipc = "returned" /\ exc = NoExc
    /\ (fn \in XavierFns \cup KaimingFns /\ Len(shape) < 2 /\ ipc # "start") =>
         ipc = "raised" /\ exc.type = "ValueError"

C16_Witness ==
    /\ fn = "kaiming_normal_" /\ ipc = "raised"
    /\ Len(shape) = 1
    /\ exc = ValueError("ndim")

\* the warning test of trunc_normal_ on the arguments of the call
MeanOutOfRange == (mean < cut_a - 2 * std) \/ (mean > cut_b + 2 * std)

\* C17: after trunc_normal_(tensor, mean, std, a, b) with a <= b and std > 0
\* returns, every element lies in [a, b], whatever the mean.
C17_TruncWithinCuts ==
    (fn \in TruncFns /\ cut_a <= cut_b /\ std > 0 /\ ipc = "returned") =>
      cut_a <= elem /\ elem <= cut_b

C17_Witness ==
    /\ fn \in TruncFns /\ ipc = "returned"
    /\ mean = MaxMean /\ std = 1 /\ cut_a = 0 - 1 /\ cut_b = 1
    /\ sample > cut_b
    /\ elem = cut_b

\* C18 as stated: the warning is emitted exactly when mean < a - 2*std or
\* mean > b + 2*std, and a call that warned never raises and returns a filled
\* tensor.
C18_WarningNeverFatal ==
    (fn \in TruncFns /\ ipc # "start") =>
      /\ warned <=> MeanOutOfRange
      /\ warned => ipc # "raised"
      /\ (warned /\ ipc = "returned") => weight.dist = "trunc_normal"

\* C18 amended: the warning is emitted exactly when mean < a - 2*std or
\* mean > b + 2*std; for std > 0 a call that warned never raises and returns
\* a filled tensor (with std = 0 the call raises ZeroDivisionError after the
\* warning).
C18_WarningNonFatal ==
    (fn \in TruncFns /\ ipc # "start") =>
      /\ warned <=> MeanOutOfRange
      /\ (warned /\ std > 0) => ipc # "raised"
      /\ (warned /\ ipc = "returned") => weight.dist = "trunc_normal"
      /\ (warned /\ std = 0 /\ ipc \notin {"cdf"}) =>
           ipc = "raised" /\ exc = ZeroDivisionError

C18_Witness ==
    /\ fn \in TruncFns /\ ipc = "returned"
    /\ mean = MaxMean /\ std = 1 /\ cut_a = 0 - 1 /\ cut_b = 1
    /\ warned
    /\ weight.dist = "trunc_normal"

\* C19: linear_init_ fills the weight and, when present, the bias with
\* uniform(-bound, bound) for the same bound with bound^2 * weight.shape[0]
\* = 1; conv_init_ does the same with bound^2 * prod(weight.shape[1:]) = 1;
\* a bias that is None is not touched and no error is raised.
C19_LayerBound ==
    /\ [](fn \in LayerFns =>
            /\ ipc # "raised"
            /\ ipc = "returned" =>
                 LET n == IF fn = "linear_init_"
                            THEN shape[1]
                            ELSE Prod(shape) \div shape[1]
                 IN /\ weight.dist = "uniform"
                    /\ weight.num * n = weight.den
                    /\ bias \in {NoBias, weight})
    /\ [][(fn \in LayerFns) =>
            ((bias = NoBias) <=> (bias' = NoBias))]_vars

C19_Witness ==
    /\ fn = "conv_init_" /\ ipc = "returned"
    /\ Len(shape) = 3 /\ shape[1] = 2 /\ shape[2] = 2 /\ shape[3] = 2
    /\ bias = weight
    /\ weight.den = 4

\* ------------------------------------------------ driver: further views
\* the evaluation results train() has compared with the record: all that
\* were returned, but for the one line 144 is about to compare
ComparedIdx ==
    {i \in CallIdx : /\ calls[i].op = "eval_ret"
                     /\ ~(pc = "compare" /\ i = Len(calls))}

\* the least of infinity and the compared results
MinCompared ==
    LET R == {calls[i].rec.metric : i \in ComparedIdx} \cup {Inf}
    IN CHOOSE m \in R : \A n \in R : m <= n

\* the earliest epoch whose evaluation attained MinCompared, 0 when none did
EarliestBestEpoch ==
    LET E == {calls[i].epoch :
                i \in {j \in ComparedIdx : calls[j].rec.metric = MinCompared}}
    IN IF E = {} THEN 0 ELSE CHOOSE e \in E : \A f \in E : e <= f

\* the epochs whose training strategy has returned
TrainCompleted ==
    IF epoch_id > 0 /\ Stage = "train_epoch" THEN epoch_id - 1 ELSE epoch_id

\* the number of lr_scheduler.step() calls the loop made before call i
StepsBefore(i) == Cardinality({j \in 1..(i - 1) : calls[j].op = "step"})

\* the indices of the "latest" writes
LatestIdx == {i \in CallIdx : IsLatest(calls[i])}

\* C21: in train() started from the initial record, outside the update of
\* lines 143-146 itself, best_metric["metric"] is the minimum of infinity
\* and the evaluation results returned so far and best_metric["epoch"] is
\* the earliest epoch whose evaluation attained it (0 when none did); an
\* evaluation that ties or exceeds the best value leaves the epoch as it is
\* and triggers no "best_model" write.
C21_BestIsRunningMinimum ==
    mode = "train" =>
      /\ best_metric.metric = MinCompared
      /\ best_metric.epoch = EarliestBestEpoch
      /\ \A i \in ComparedIdx :
           calls[i].rec.metric >= BestBefore(i) =>
             SavesIn("best_model", calls[i].epoch) = {}

\* epoch 1 and epoch 2 both evaluated to 1: the record still names epoch 1
C21_Witness ==
    /\ mode = "train" /\ pc = "for" /\ epoch_id = 2
    /\ EvalResultOf(1) = 1 /\ EvalResultOf(2) = 1
    /\ \E i \in CallIdx : calls[i].op = "eval_ret" /\ calls[i].epoch = 2
    /\ best_metric = [metric |-> 1, epoch |-> 1]
    /\ SavesIn("best_model", 1) # {}
    /\ SavesIn("best_model", 2) = {}

\* C22: the "latest" write is the last operation of every epoch and follows
\* that epoch's "epoch_{e}" write; at every point the most recent "latest"
\* write records the current epoch or the one before it, there is none only
\* until the end of epoch 1, and it never exceeds the number of epochs whose
\* training strategy has completed; an "epoch_{e}" or "best_model" write of
\* epoch e can exist while "latest" still records e - 1.
C22_LatestLagsByOne ==
    mode = "train" =>
      /\ \A i \in LatestIdx :
           /\ \A j \in CallIdx : j > i => calls[j].epoch > calls[i].epoch
           /\ \A j \in SavesIn("epoch_", calls[i].epoch) : j < i
      /\ LatestIdx = {} => epoch_id <= 1
      /\ LatestIdx # {} =>
           LET last == calls[CHOOSE i \in LatestIdx :
                               \A j \in LatestIdx : j <= i].epoch
           IN /\ last \in {epoch_id, epoch_id - 1}
              /\ last <= TrainCompleted

\* "epoch_2" and "best_model" of epoch 2 are written, "latest" records 1
C22_Witness ==
    /\ mode = "train" /\ pc = "save_latest" /\ epoch_id = 2
    /\ SavesIn("epoch_", 2) # {}
    /\ SavesIn("best_model", 2) # {}
    /\ SavesIn("latest", 2) = {}
    /\ SavesIn("latest", 1) # {}

\* C23: within an epoch the "best_model" write precedes the loop's
\* lr_scheduler.step() and the "epoch_{e}" and "latest" writes follow it;
\* with a by_epoch schedule the loop has made e - 1 steps at the "best_model"
\* write of epoch e and e steps at its "epoch_{e}" and "latest" writes.
C23_SchedulerStateAtWrites ==
    mode = "train" =>
      \A i \in CallIdx : calls[i].op = "save" =>
        LET e == calls[i].epoch
            best == IsSave(calls[i], "best_model")
        IN /\ best => \A j \in CallsIn("step", e) : i < j
           /\ ~best => \A j \in CallsIn("step", e) : j < i
           /\ by_epoch => StepsBefore(i) = IF best THEN e - 1 ELSE e

C23_Witness ==
    /\ mode = "train" /\ pc = "for" /\ epoch_id = 2 /\ by_epoch
    /\ \E i \in SavesIn("best_model", 2) : StepsBefore(i) = 1
    /\ \E i \in SavesIn("epoch_", 2) : StepsBefore(i) = 2
    /\ \E i \in SavesIn("latest", 2) : StepsBefore(i) = 2

\* C24: in xavier_uniform_, xavier_normal_, kaiming_uniform_ and
\* kaiming_normal_ every validation runs before the tensor is written, so a
\* call that raises leaves the tensor as it was; kaiming_* report a rejected
\* mode in preference to a rank < 2, and both in preference to an unsupported
\* nonlinearity or leaky_relu slope.
C24_ValidationBeforeWrite ==
    (fn \in XavierFns \cup KaimingFns) =>
      /\ ipc = "raised" => weight = Empty
      /\ weight # Empty => ipc = "returned" /\ exc = NoExc
      /\ (fn \in KaimingFns /\ ipc # "start") =>
           /\ Lower(fan_mode) \notin ValidModes =>
                ipc = "raised" /\ exc = ValueError("mode")
           /\ (Lower(fan_mode) \in ValidModes /\ Len(shape) < 2) =>
                ipc = "raised" /\ exc = ValueError("ndim")
           /\ exc.about \in {"nonlinearity", "negative_slope"} =>
                Lower(fan_mode) \in ValidModes /\ Len(shape) >= 2

\* a call wrong in mode, rank and nonlinearity at once
C24_Witness ==
    /\ fn = "kaiming_uniform_" /\ ipc = "raised"
    /\ fan_mode = "bogus" /\ Len(shape) = 1 /\ nonlinearity = "bogus"
    /\ exc = ValueError("mode")
    /\ weight = Empty

\* res and expect differ under the mode of the call, for values compared
\* by lines 149-153 or 159-163
Mismatch(r, e) ==
    \/ cmp_mode = "close" /\ ~Close(r.v, e.v, delta)
    \/ cmp_mode = "equal"
         /\ (IF r.kind = "array" THEN AsType(r.v, e.dtype) ELSE r.v) # e.v

\* C25: compare raises AssertionError only for an array, a list/tuple or an
\* int/float/complex/bool result that mismatches under mode "close" or
\* "equal" (for an array, also in shape); for a result of any other type it
\* returns without raising; for an array with another mode only the shape
\* equality is checked.
C25_CompareAsserts ==
    /\ (cpc = "raised" /\ cexc = "AssertionError") =>
         CASE res.kind = "array" ->
                \/ res.shape # expect.shape
                \/ Mismatch(res, expect)
           [] res.kind = "scalar" -> Mismatch(res, expect)
           [] res.kind = "list" ->
                /\ idx \in 1..Len(res.items)
                /\ res.items[idx].kind = "scalar"
                /\ Mismatch(res.items[idx], expect.items[idx])
           [] OTHER -> FALSE
    /\ (res.kind = "other" /\ cpc \in {"returned", "raised"}) =>
         cpc = "returned" /\ cexc = "none"
    /\ ( /\ res.kind = "array" /\ cmp_mode \notin {"close", "equal"}
         /\ cpc \in {"returned", "raised"} ) =>
         (cpc = "raised" <=> res.shape # expect.shape)

\* None compared with a number under mode "equal": the call returns
C25_Witness ==
    /\ cpc = "returned" /\ cexc = "none"
    /\ res = Other /\ expect = Scalar(1)
    /\ cmp_mode = "equal"

====
